---------------------------- MODULE Spec2Model ----------------------------
(***************************************************************************)
(* The upload/ingestion client of src/scrapers/upload_video.py:            *)
(* VideoUploader (creator cache, upsert_creator, ensure_creators,          *)
(* create_video, upload_file_to_s3, upload_video, _download_file) and the  *)
(* driver main() with its exit codes.  The platform API, the storage       *)
(* service and the remote hosts are the environment: every answer they can *)
(* give is a nondeterministic choice.                                      *)
(***************************************************************************)
EXTENDS Integers, Sequences, FiniteSets, TLC

(***************************************************************************)
(* Bounds of the model.                                                    *)
(***************************************************************************)
MaxCalls == 2
MaxCreators == 2

(***************************************************************************)
(* Program constants.                                                      *)
(***************************************************************************)
MinVideoSize == 1024
MinThumbSize == 100
ExitFailure == 1
ExitDuplicate == 2

(***************************************************************************)
(* Values.                                                                 *)
(***************************************************************************)
Absent == "<absent>"
Usernames == {"alice", "bob"}
CreatorIds == {"k1", "k2"}
Roles == {"performer", "producer"}

\* A creator dict: a key that is missing is Absent, "" is an empty string.
ExistingC == [id |-> "c2", username |-> Absent, role |-> "producer"]
NewAlice == [id |-> Absent, username |-> "alice", role |-> "performer"]
NewBob == [id |-> Absent, username |-> "bob", role |-> Absent]
BothKeys == [id |-> "c9", username |-> "alice", role |-> "producer"]
NeitherKey == [id |-> Absent, username |-> Absent, role |-> "performer"]
EmptyName == [id |-> Absent, username |-> "", role |-> "performer"]
BadRole == [id |-> "c2", username |-> Absent, role |-> "director"]

Entries == {ExistingC, NewAlice, NewBob, BothKeys, NeitherKey, EmptyName, BadRole}

CreatorLists == UNION {[1..n -> Entries] : n \in 0..MaxCreators}

\* HTTP answers: 0 stands for a transport failure (no response at all).
ConflictStatus == 409
FailStatuses == {ConflictStatus, 500}
Ok(status) == status = 200

VideoSizes == {MinVideoSize - 1, MinVideoSize}
ThumbSizes == {MinThumbSize - 1, MinThumbSize}

NoExc == [type |-> "none", status |-> 0, videoId |-> 0, at |-> "none"]
NoResponse == [videoId |-> 0, bucket |-> "none", key |-> 0, thumbnailUploadUrl |-> FALSE]
NoOther == [exc |-> NoExc, exitCode |-> -1]
NoPayload == [sent |-> FALSE, creators |-> << >>, externalReference |-> "none",
              contentType |-> "none", thumbnailContentType |-> "none"]

VARIABLES
    cache,          \* self._creator_cache: username -> creator id
    posted,         \* usernames a POST to /api/v1/creators was sent for, this instance
    resolvedIds,    \* ids the successful resolutions of a username gave, this instance
    upserts,        \* per username: POSTs to /api/v1/creators sent and answered 2xx
    platform,       \* the platform's externalReference -> videoId records
    fs,             \* temporary files that exist on the filesystem
    calls,          \* invocations started
    entry,          \* the entry point of the running invocation
    pc,             \* its position
    args,           \* its arguments
    temp_video_path, temp_thumbnail_path,
    actual_thumbnail_path,
    videoSize, thumbSize,
    idx,            \* ensure_creators: position in the list
    result_creators,
    payload,        \* the body of the session-creation request, once sent
    response,       \* the session
    net,            \* requests sent during the invocation, in order
    created,        \* temporary files created during the invocation
    exc,            \* the exception the invocation raised
    mainError,      \* main: the check of the driver that failed
    exitCode,       \* main: the process exit code (-1: not exited)
    other,          \* a second exception and the exit code main gives it
    inputs,         \* main: the command line, the JSON file and the environment
    merged,         \* main: the values it merges from them
    content_type,   \* upload_video: the resolved type of the video asset
    thumbnail_content_type,
    put_headers,    \* the Content-Type header of each storage PUT sent
    peer,           \* a second VideoUploader and the upload_video call it runs
    local_files     \* the local sources of the invocation that exist on the filesystem

mergeVars == <<inputs, merged>>
typeVars == <<content_type, thumbnail_content_type, put_headers>>

persistent == <<cache, posted, resolvedIds, upserts, platform, fs, calls>>
locals == <<entry, pc, args, temp_video_path, temp_thumbnail_path, actual_thumbnail_path,
            videoSize, thumbSize, idx, result_creators, payload, response, net, created,
            exc, mainError, peer, local_files, mergeVars, typeVars, exitCode, other>>
vars == <<persistent, locals>>

EmptyCache == [u \in {} |-> "k1"]
NoIds == [u \in Usernames |-> {}]
NoUpserts == [u \in Usernames |-> [sent |-> 0, ok |-> 0]]

\* What the platform may hold when a process starts: nothing, or the record of
\* an earlier import of the same external reference.
NoRecords == [r \in {} |-> 0]
PlatformStates == {NoRecords, [r \in {"ref1"} |-> 9]}

\* None, where a string is expected and where an int is
NoCount == -1
NoInputs == [cli |-> << >>, json |-> << >>, env |-> << >>]
NoMerged == << >>

\* A file suffix is the sequence of its characters after the dot; << >> is a
\* path without a suffix.
Mp4 == <<"m", "p", "4">>
Jpg == <<"j", "p", "g">>

NoArgs == [video_path |-> "none", title |-> "none", user_id |-> "none",
           thumbnail_path |-> "none", creators |-> << >>, external_reference |-> "none",
           video_suffix |-> Mp4, thumbnail_suffix |-> Jpg]

NoHeaders == [video |-> "none", thumb |-> "none"]

\* The second instance before it is constructed.
NoPeer == [pc |-> "none", cache |-> EmptyCache, received |-> NoIds, posted |-> {},
           creators |-> << >>, idx |-> 1, result_creators |-> << >>,
           temp_video_path |-> 0, created |-> {}, failed |-> FALSE]

Init ==
    /\ cache = EmptyCache
    /\ posted = {}
    /\ resolvedIds = NoIds
    /\ upserts = NoUpserts
    /\ platform \in PlatformStates
    /\ fs = {}
    /\ calls = 0
    /\ entry = "none"
    /\ pc = "idle"
    /\ args = NoArgs
    /\ temp_video_path = 0
    /\ temp_thumbnail_path = 0
    /\ actual_thumbnail_path = "none"
    /\ videoSize = -1
    /\ thumbSize = -1
    /\ idx = 1
    /\ result_creators = << >>
    /\ payload = NoPayload
    /\ response = NoResponse
    /\ net = << >>
    /\ created = {}
    /\ exc = NoExc
    /\ mainError = "none"
    /\ exitCode = -1
    /\ other = NoOther
    /\ inputs = NoInputs
    /\ merged = NoMerged
    /\ content_type = "none"
    /\ thumbnail_content_type = "none"
    /\ put_headers = NoHeaders
    /\ peer = NoPeer
    /\ local_files = {}

(***************************************************************************)
(* Helpers.                                                                *)
(***************************************************************************)
Truthy(v) == v # Absent /\ v # "" /\ v # "none"

\* creator.get("role", "performer")
RoleOf(creator) == IF creator.role = Absent THEN "performer" ELSE creator.role

IsSimpleFormatNever(creator) == FALSE
IsSimpleFormatById(creator) == creator.id # Absent

\* "id" in creator and "username" not in creator
IsSimpleFormat(creator) == creator.id # Absent /\ creator.username = Absent

\* _is_url: scheme and netloc both non-empty
IsUrl(path) == path = "url"

\* str.lower(), character by character
UpperCase == <<"A", "B", "E", "F", "G", "I", "J", "K", "M", "N", "O", "P", "T", "V", "W", "X">>
LowerCase == <<"a", "b", "e", "f", "g", "i", "j", "k", "m", "n", "o", "p", "t", "v", "w", "x">>

ToLower(c) ==
    IF \E i \in 1..Len(UpperCase) : UpperCase[i] = c
    THEN LowerCase[CHOOSE i \in 1..Len(UpperCase) : UpperCase[i] = c]
    ELSE c

Lower(suffix) == [i \in 1..Len(suffix) |-> ToLower(suffix[i])]

LowerIdentity(suffix) == suffix

\* file_path.suffix.lower()
Extension(suffix) == Lower(suffix)

\* _get_content_type: the table of lines 470-481
content_types ==
    (<<"m", "p", "4">> :> "video/mp4")
    @@ (<<"m", "o", "v">> :> "video/quicktime")
    @@ (<<"a", "v", "i">> :> "video/x-msvideo")
    @@ (<<"w", "e", "b", "m">> :> "video/webm")
    @@ (<<"m", "k", "v">> :> "video/x-matroska")
    @@ (<<"j", "p", "g">> :> "image/jpeg")
    @@ (<<"j", "p", "e", "g">> :> "image/jpeg")
    @@ (<<"p", "n", "g">> :> "image/png")
    @@ (<<"g", "i", "f">> :> "image/gif")
    @@ (<<"w", "e", "b", "p">> :> "image/webp")

\* content_types.get(extension, "application/octet-stream")
get_content_type(suffix) ==
    IF Extension(suffix) \in DOMAIN content_types
    THEN content_types[Extension(suffix)]
    ELSE "application/octet-stream"

\* Path(parsed_url.path).suffix or ".mp4": the suffix of the temporary file
TempSuffix(url_suffix, default) == IF url_suffix = << >> THEN default ELSE url_suffix

\* The suffix of the asset that stands for a source
AssetSuffix(path, suffix, default) ==
    IF IsUrl(path) THEN TempSuffix(suffix, default) ELSE suffix

\* An exception: its type, the status and the videoId of the response it carries
\* (HTTPError), and the step that raised it.
RaiseExc(type, status, videoId, at) ==
    [type |-> type, status |-> status, videoId |-> videoId, at |-> at]

\* requests: raise_for_status raises HTTPError, a transport failure ConnectionError
HttpExc(status, videoId, at) ==
    IF status = 0 THEN RaiseExc("ConnectionError", 0, 0, at)
    ELSE RaiseExc("HTTPError", status, videoId, at)

\* A request on the wire: about is the username of a creator upsert
Sent(req, about, status) == [req |-> req, about |-> about, status |-> status]

\* main: the validation loop over the creators
CreatorValid(creator) ==
    /\ creator.role # Absent
    /\ creator.role \in Roles
    /\ ~(creator.id = Absent /\ creator.username = Absent)

CreatorsValid(creators) == \A i \in 1..Len(creators) : CreatorValid(creators[i])

\* main: the first check that fails, in the order of the code
MainCheck(api_key, a) ==
    IF ~api_key THEN "api_key"
    ELSE IF ~Truthy(a.video_path) THEN "video"
    ELSE IF ~Truthy(a.title) THEN "title"
    ELSE IF ~Truthy(a.user_id) THEN "user_id"
    ELSE IF ~CreatorsValid(a.creators) THEN "creators"
    ELSE "none"

DownloadOutcomesTempFirst(sizes) ==
    {[status |-> s, temp |-> TRUE, done |-> FALSE, size |-> 0] : s \in FailStatuses}
    \cup {[status |-> 200, temp |-> TRUE, done |-> FALSE, size |-> 0]}
    \cup {[status |-> 200, temp |-> TRUE, done |-> TRUE, size |-> z] : z \in sizes}

\* _download_file: what one call can do.  temp: the temporary file was created;
\* done: the body was written to the end and the name returned.
DownloadOutcomes(sizes) ==
    {[status |-> s, temp |-> FALSE, done |-> FALSE, size |-> 0] : s \in FailStatuses}
    \cup {[status |-> 200, temp |-> TRUE, done |-> FALSE, size |-> 0]}
    \cup {[status |-> 200, temp |-> TRUE, done |-> TRUE, size |-> z] : z \in sizes}

DownloadExc(o, at) ==
    IF ~Ok(o.status) THEN HttpExc(o.status, 0, at)
    ELSE IF ~o.done THEN RaiseExc("ConnectionError", 0, 0, at)
    ELSE NoExc

CanInvoke ==
    /\ calls < MaxCalls
    /\ pc = "idle"

\* tempfile.NamedTemporaryFile: a name no other file has
TempName(kind) == IF kind = "video" THEN 2 * calls - 1 ELSE 2 * calls

ArgSets(videos, fields) ==
    [video_path : videos, title : fields, user_id : fields,
     thumbnail_path : {"none", "local", "url"}, creators : CreatorLists,
     external_reference : {"none", "ref1"}, video_suffix : {Mp4},
     thumbnail_suffix : {Jpg}]

ResetLocals ==
    /\ temp_video_path' = 0
    /\ temp_thumbnail_path' = 0
    /\ actual_thumbnail_path' = "none"
    /\ videoSize' = -1
    /\ thumbSize' = -1
    /\ idx' = 1
    /\ result_creators' = << >>
    /\ payload' = NoPayload
    /\ response' = NoResponse
    /\ net' = << >>
    /\ created' = {}
    /\ exc' = NoExc
    /\ content_type' = "none"
    /\ thumbnail_content_type' = "none"
    /\ put_headers' = NoHeaders
    /\ local_files' = {}

(***************************************************************************)
(* main(): merge and validate the arguments, construct the uploader.       *)
(***************************************************************************)
Main ==
    /\ CanInvoke
    /\ \E api_key \in BOOLEAN, a \in ArgSets({"none", "local", "url"}, {"none", "given"}) :
        LET failed == MainCheck(api_key, a) IN
        /\ mainError' = failed
        /\ IF failed # "none"
           THEN /\ pc' = "exited"
                /\ exitCode' = ExitFailure
                /\ args' = NoArgs
                /\ UNCHANGED <<cache, posted, resolvedIds, upserts>>
           ELSE /\ pc' = "video"
                /\ exitCode' = -1
                /\ args' = a
                /\ cache' = EmptyCache
                /\ posted' = {}
                /\ resolvedIds' = NoIds
                /\ upserts' = NoUpserts
    /\ entry' = "main"
    /\ calls' = calls + 1
    /\ other' = other
    /\ UNCHANGED <<mergeVars, peer>>
    /\ ResetLocals
    /\ UNCHANGED <<platform, fs>>

(***************************************************************************)
(* A caller that holds a VideoUploader calls upload_video.                 *)
(***************************************************************************)
CallUploadVideo ==
    /\ CanInvoke
    /\ \E a \in ArgSets({"local", "url"}, {"given"}) : args' = a
    /\ entry' = "upload_video"
    /\ pc' = "video"
    /\ mainError' = "none"
    /\ exitCode' = -1
    /\ calls' = calls + 1
    /\ other' = other
    /\ UNCHANGED <<mergeVars, peer>>
    /\ ResetLocals
    /\ UNCHANGED <<cache, posted, resolvedIds, upserts, platform, fs>>

\* The same call of a batch over local files, without thumbnails.
CallUploadLocal ==
    /\ CanInvoke
    /\ \E cs \in CreatorLists, ref \in {"none", "ref1"} :
        args' = [video_path |-> "local", title |-> "given", user_id |-> "given",
                 thumbnail_path |-> "none", creators |-> cs, external_reference |-> ref,
                 video_suffix |-> Mp4, thumbnail_suffix |-> Jpg]
    /\ entry' = "upload_video"
    /\ pc' = "video"
    /\ mainError' = "none"
    /\ exitCode' = -1
    /\ calls' = calls + 1
    /\ other' = other
    /\ UNCHANGED <<mergeVars, peer>>
    /\ ResetLocals
    /\ UNCHANGED <<cache, posted, resolvedIds, upserts, platform, fs>>

(***************************************************************************)
(* A caller that holds a VideoUploader calls ensure_creators.              *)
(***************************************************************************)
CallEnsureCreators ==
    /\ CanInvoke
    /\ \E cs \in CreatorLists : args' = [NoArgs EXCEPT !.creators = cs]
    /\ entry' = "ensure_creators"
    /\ pc' = "creators"
    /\ mainError' = "none"
    /\ exitCode' = -1
    /\ calls' = calls + 1
    /\ other' = other
    /\ UNCHANGED <<mergeVars, peer>>
    /\ ResetLocals
    /\ UNCHANGED <<cache, posted, resolvedIds, upserts, platform, fs>>


(***************************************************************************)
(* upload_video, step by step.                                             *)
(***************************************************************************)
instanceVars == <<cache, posted, resolvedIds, upserts>>

\* An exception leaves upload_video through its finally block; ensure_creators
\* called on its own has none.
OnRaise == IF entry = "ensure_creators" THEN "returned" ELSE "finally"
AfterCreatorsSkipSession == IF entry = "ensure_creators" THEN "returned" ELSE "put_video"

\* line 171 of ensure_creators returns; upload_video goes on to create_video (line 375)
AfterCreators == IF entry = "ensure_creators" THEN "returned" ELSE "create"

VideoTooSmallLax(size) == size < MinVideoSize - 1

\* line 329
VideoTooSmall(size) == size < MinVideoSize

AfterMissingFileGoOn == "creators"

\* lines 321-322 and 355-356: FileNotFoundError is caught nowhere in upload_video
AfterMissingFile == "finally"

\* lines 312-322: the video is fetched, or the local path must exist
MaterializeVideo ==
    /\ pc = "video"
    /\ IF IsUrl(args.video_path)
       THEN \E o \in DownloadOutcomes(VideoSizes) :
            /\ net' = Append(net, Sent("GET_video", "-", o.status))
            /\ fs' = IF o.temp THEN fs \cup {TempName("video")} ELSE fs
            /\ created' = IF o.temp THEN created \cup {TempName("video")} ELSE created
            /\ IF o.done
               THEN /\ temp_video_path' = TempName("video")
                    /\ videoSize' = o.size
                    /\ content_type' =
                           get_content_type(AssetSuffix("url", args.video_suffix, Mp4))
                    /\ pc' = "size"
                    /\ exc' = exc
               ELSE /\ exc' = DownloadExc(o, "video")
                    /\ pc' = "finally"
                    /\ UNCHANGED <<temp_video_path, videoSize, content_type>>
            /\ local_files' = local_files
       ELSE /\ \E exists \in BOOLEAN :
               IF exists
               THEN /\ \E z \in VideoSizes : videoSize' = z
                    /\ local_files' = local_files \cup {"video"}
                    /\ content_type' =
                           get_content_type(AssetSuffix("local", args.video_suffix, Mp4))
                    /\ pc' = "size"
                    /\ exc' = exc
               ELSE /\ exc' = RaiseExc("FileNotFoundError", 0, 0, "video")
                    /\ pc' = AfterMissingFile
                    /\ UNCHANGED <<videoSize, content_type, local_files>>
            /\ UNCHANGED <<net, fs, created, temp_video_path>>
    /\ UNCHANGED <<instanceVars, platform, calls, entry, args, temp_thumbnail_path,
                   actual_thumbnail_path, thumbSize, idx, result_creators, payload,
                   response, mainError, peer, mergeVars, thumbnail_content_type, put_headers,
                   other, exitCode>>

\* lines 327-334: the size check of the video
CheckVideoSize ==
    /\ pc = "size"
    /\ IF VideoTooSmall(videoSize)
       THEN /\ exc' = RaiseExc("ValueError", 0, 0, "size")
            /\ pc' = "finally"
       ELSE /\ exc' = exc
            /\ pc' = "thumb"
    /\ UNCHANGED <<persistent, entry, args, temp_video_path, temp_thumbnail_path,
                   actual_thumbnail_path, videoSize, thumbSize, idx, result_creators,
                   payload, response, net, created, mainError, peer, local_files, mergeVars, typeVars, other, exitCode>>

AfterThumbnailSizeStrict(size) == IF size < MinThumbSize THEN "finally" ELSE "creators"

\* lines 360-363: a thumbnail below 100 bytes is printed as a warning
AfterThumbnailSize(size) == "creators"

\* lines 345-366: the thumbnail, when one is given; its size only warns
MaterializeThumbnail ==
    /\ pc = "thumb"
    /\ IF ~Truthy(args.thumbnail_path)
       THEN /\ pc' = "creators"
            /\ UNCHANGED <<net, fs, created, temp_thumbnail_path,
                           actual_thumbnail_path, thumbSize, exc, thumbnail_content_type,
                           local_files>>
       ELSE IF IsUrl(args.thumbnail_path)
       THEN \E o \in DownloadOutcomes(ThumbSizes) :
            /\ net' = Append(net, Sent("GET_thumb", "-", o.status))
            /\ fs' = IF o.temp THEN fs \cup {TempName("thumb")} ELSE fs
            /\ created' = IF o.temp THEN created \cup {TempName("thumb")} ELSE created
            /\ IF o.done
               THEN /\ temp_thumbnail_path' = TempName("thumb")
                    /\ actual_thumbnail_path' = "temp"
                    /\ thumbSize' = o.size
                    /\ thumbnail_content_type' =
                           get_content_type(AssetSuffix("url", args.thumbnail_suffix, Jpg))
                    /\ pc' = AfterThumbnailSize(o.size)
                    /\ exc' = exc
               ELSE /\ exc' = DownloadExc(o, "thumb")
                    /\ pc' = "finally"
                    /\ UNCHANGED <<temp_thumbnail_path, actual_thumbnail_path, thumbSize,
                                   thumbnail_content_type>>
            /\ local_files' = local_files
       ELSE /\ \E exists \in BOOLEAN :
               IF exists
               THEN /\ \E z \in ThumbSizes :
                          /\ thumbSize' = z
                          /\ pc' = AfterThumbnailSize(z)
                    /\ actual_thumbnail_path' = "local"
                    /\ local_files' = local_files \cup {"thumb"}
                    /\ thumbnail_content_type' =
                           get_content_type(AssetSuffix("local", args.thumbnail_suffix, Jpg))
                    /\ exc' = exc
               ELSE /\ exc' = RaiseExc("FileNotFoundError", 0, 0, "thumb")
                    /\ pc' = AfterMissingFile
                    /\ UNCHANGED <<actual_thumbnail_path, thumbSize, thumbnail_content_type,
                                   local_files>>
            /\ UNCHANGED <<net, fs, created, temp_thumbnail_path>>
    /\ UNCHANGED <<instanceVars, platform, calls, entry, args, temp_video_path, videoSize,
                   idx, result_creators, payload, response, mainError, peer, mergeVars,
                   content_type, put_headers, other, exitCode>>

(***************************************************************************)
(* ensure_creators and upsert_creator: one entry of the list per step.     *)
(***************************************************************************)
CacheNeverHit(username) == FALSE

StoreNothing(username, id) == cache

\* upsert_creator, line 107: self._creator_cache[username] = creator_id
StoreInCache(username, id) == (username :> id) @@ cache

\* upsert_creator, lines 75-77: the cache is asked first
CacheHit(username) == username \in DOMAIN cache

AppendResolvedOnce(result, creator, id) ==
    IF \E i \in 1..Len(result) : result[i].id = id THEN result
    ELSE Append(result, [id |-> id, role |-> RoleOf(creator)])

AppendResolvedInFront(result, creator, id) ==
    <<[id |-> id, role |-> RoleOf(creator)]>> \o result

\* ensure_creators, lines 139-142 and 166-169
AppendResolved(result, creator, id) == Append(result, [id |-> id, role |-> RoleOf(creator)])

AfterUpsertFailureGoOn == IF entry = "ensure_creators" THEN "returned" ELSE "create"

\* raise_for_status in upsert_creator is caught nowhere in ensure_creators
AfterUpsertFailure == OnRaise

\* lines 128-129 of ensure_creators, line 369 of upload_video: nothing to resolve
NoCreators ==
    /\ pc = "creators"
    /\ Len(args.creators) = 0
    /\ pc' = AfterCreators
    /\ UNCHANGED <<persistent, entry, args, temp_video_path, temp_thumbnail_path,
                   actual_thumbnail_path, videoSize, thumbSize, idx, result_creators,
                   payload, response, net, created, exc, mainError, peer, local_files, mergeVars, typeVars, other, exitCode>>

EnsureCreator ==
    /\ pc = "creators"
    /\ idx <= Len(args.creators)
    /\ LET creator == args.creators[idx]
           username == creator.username
           next == IF idx = Len(args.creators) THEN AfterCreators ELSE "creators"
       IN
       IF IsSimpleFormat(creator)
       THEN /\ result_creators' = AppendResolved(result_creators, creator, creator.id)
            /\ idx' = idx + 1
            /\ pc' = next
            /\ UNCHANGED <<cache, posted, resolvedIds, upserts, net, exc>>
       ELSE IF ~Truthy(username)
       THEN /\ exc' = RaiseExc("ValueError", 0, 0, "creators")
            /\ pc' = OnRaise
            /\ UNCHANGED <<cache, posted, resolvedIds, upserts, net, idx, result_creators>>
       ELSE IF CacheHit(username)
       THEN /\ result_creators' = AppendResolved(result_creators, creator, cache[username])
            /\ resolvedIds' = [resolvedIds EXCEPT ![username] = @ \cup {cache[username]}]
            /\ idx' = idx + 1
            /\ pc' = next
            /\ UNCHANGED <<cache, posted, upserts, net, exc>>
       ELSE \E status \in {200} \cup FailStatuses :
            /\ net' = Append(net, Sent("POST_creators", username, status))
            /\ posted' = posted \cup {username}
            /\ upserts' = [upserts EXCEPT ![username] =
                               [sent |-> @.sent + 1,
                                ok |-> IF Ok(status) THEN @.ok + 1 ELSE @.ok]]
            /\ IF Ok(status)
               THEN \E id \in CreatorIds :
                    /\ cache' = StoreInCache(username, id)
                    /\ result_creators' = AppendResolved(result_creators, creator, id)
                    /\ resolvedIds' = [resolvedIds EXCEPT ![username] = @ \cup {id}]
                    /\ idx' = idx + 1
                    /\ pc' = next
                    /\ exc' = exc
               ELSE /\ exc' = HttpExc(status, 0, "creators")
                    /\ pc' = AfterUpsertFailure
                    /\ UNCHANGED <<cache, resolvedIds, idx, result_creators>>
    /\ UNCHANGED <<platform, fs, calls, entry, args, temp_video_path,
                   temp_thumbnail_path, actual_thumbnail_path, videoSize, thumbSize,
                   payload, response, created, mainError, peer, local_files, mergeVars, typeVars, other, exitCode>>

(***************************************************************************)
(* create_video: the session-creation request.  The platform answers 409   *)
(* with the videoId on record when the externalReference is known to it.   *)
(***************************************************************************)
IsDuplicate(ref) == Truthy(ref) /\ ref \in DOMAIN platform

CreateVideo ==
    /\ pc = "create"
    /\ payload' = [sent |-> TRUE, creators |-> result_creators,
                   externalReference |-> args.external_reference,
                   contentType |-> content_type,
                   thumbnailContentType |-> thumbnail_content_type]
    /\ LET ref == args.external_reference IN
       IF IsDuplicate(ref)
       THEN /\ net' = Append(net, Sent("POST_upload", "-", ConflictStatus))
            /\ exc' = HttpExc(ConflictStatus, platform[ref], "create")
            /\ pc' = "finally"
            /\ UNCHANGED <<platform, response>>
       ELSE \E status \in {200, 500} :
            /\ net' = Append(net, Sent("POST_upload", "-", status))
            /\ IF Ok(status)
               THEN /\ \E slot \in BOOLEAN :
                       response' = [videoId |-> calls, bucket |-> "videos", key |-> calls,
                                    thumbnailUploadUrl |-> slot]
                    /\ platform' = IF Truthy(ref) THEN (ref :> calls) @@ platform
                                   ELSE platform
                    /\ pc' = "put_video"
                    /\ exc' = exc
               ELSE /\ exc' = HttpExc(status, 0, "create")
                    /\ pc' = "finally"
                    /\ UNCHANGED <<platform, response>>
    /\ UNCHANGED <<instanceVars, fs, calls, entry, args, temp_video_path,
                   temp_thumbnail_path, actual_thumbnail_path, videoSize, thumbSize, idx,
                   result_creators, created, mainError, peer, local_files, mergeVars, typeVars, other, exitCode>>

AfterPutVideoFailureGoOn == "put_thumb"

\* raise_for_status in upload_file_to_s3 is caught nowhere in upload_video
AfterPutVideoFailure == "finally"

\* lines 393-396 and upload_file_to_s3: the video bytes
PutVideo ==
    /\ pc = "put_video"
    /\ \E status \in {200} \cup FailStatuses :
        /\ net' = Append(net, Sent("PUT_video", "-", status))
        /\ put_headers' = [put_headers EXCEPT !.video = content_type]
        /\ IF Ok(status)
           THEN /\ pc' = "put_thumb"
                /\ exc' = exc
           ELSE /\ exc' = HttpExc(status, 0, "put_video")
                /\ pc' = AfterPutVideoFailure
    /\ UNCHANGED <<persistent, entry, args, temp_video_path, temp_thumbnail_path,
                   actual_thumbnail_path, videoSize, thumbSize, idx, result_creators,
                   payload, response, created, mainError, peer, local_files, mergeVars, content_type,
                   thumbnail_content_type, other, exitCode>>

ThumbnailToPutWheneverSlot == response.thumbnailUploadUrl
ThumbnailToPutWheneverGiven == actual_thumbnail_path # "none"

\* line 399: actual_thumbnail_path and response.get("thumbnailUploadUrl")
ThumbnailToPut == actual_thumbnail_path # "none" /\ response.thumbnailUploadUrl

ThumbPutExcSwallowed(status) == exc

\* upload_file_to_s3 for the thumbnail: raise_for_status on its answer
ThumbPutExc(status) == IF Ok(status) THEN exc ELSE HttpExc(status, 0, "put_thumb")

ThumbnailHeaderAlwaysJpeg == "image/jpeg"

\* line 404: thumbnail_content_type or "image/jpeg"
ThumbnailHeader ==
    IF thumbnail_content_type = "none" THEN "image/jpeg" ELSE thumbnail_content_type

\* lines 398-408: the thumbnail bytes, when there is a thumbnail and a slot for it
PutThumbnail ==
    /\ pc = "put_thumb"
    /\ IF ThumbnailToPut
       THEN \E status \in {200} \cup FailStatuses :
            /\ net' = Append(net, Sent("PUT_thumb", "-", status))
            /\ put_headers' = [put_headers EXCEPT !.thumb = ThumbnailHeader]
            /\ exc' = ThumbPutExc(status)
       ELSE UNCHANGED <<net, exc, put_headers>>
    /\ pc' = "finally"
    /\ UNCHANGED <<persistent, entry, args, temp_video_path, temp_thumbnail_path,
                   actual_thumbnail_path, videoSize, thumbSize, idx, result_creators,
                   payload, response, created, mainError, peer, local_files, mergeVars, content_type,
                   thumbnail_content_type, other, exitCode>>

RemovedNothing == {}

UnlinkedSourcesActual == {"video", "thumb"}

\* temp_video_path and temp_thumbnail_path are None for a local source (lines
\* 307-308): the finally block unlinks no source
UnlinkedSources == {}

\* lines 410-417: the finally block removes the temporary files it knows of
Removed == {f \in {temp_video_path, temp_thumbnail_path} : f # 0 /\ f \in fs}

Finally ==
    /\ pc = "finally"
    /\ fs' = fs \ Removed
    /\ local_files' = local_files \ UnlinkedSources
    /\ pc' = "returned"
    /\ UNCHANGED <<instanceVars, platform, calls, entry, args, temp_video_path,
                   temp_thumbnail_path, actual_thumbnail_path, videoSize, thumbSize, idx,
                   result_creators, payload, response, net, created, exc, mainError, peer,
                   mergeVars, typeVars, other, exitCode>>

\* line 408: upload_video returns the session when nothing was raised
ReturnValue == IF pc \in {"returned", "exited"} /\ exc = NoExc THEN response ELSE NoResponse

(***************************************************************************)
(* main(), lines 737-762: the exit code of the process.                    *)
(***************************************************************************)
ExitCodeAlwaysFailure(e) == IF e.type = "none" THEN 0 ELSE ExitFailure

\* no exception: main returns; HTTPError with status 409: sys.exit(2);
\* any other exception: sys.exit(1)
ExitCodeOf(e) ==
    IF e.type = "none" THEN 0
    ELSE IF e.type = "HTTPError" /\ e.status = ConflictStatus THEN ExitDuplicate
    ELSE ExitFailure

MainExit ==
    /\ pc = "returned"
    /\ entry = "main"
    /\ exitCode' = ExitCodeOf(exc)
    /\ pc' = "exited"
    /\ UNCHANGED <<persistent, entry, args, temp_video_path, temp_thumbnail_path,
                   actual_thumbnail_path, videoSize, thumbSize, idx, result_creators,
                   payload, response, net, created, exc, mainError, peer, local_files, mergeVars, typeVars, other>>

\* The call is over: its frame is gone, the instance, the platform and the
\* filesystem stay.
Release ==
    /\ pc = "returned"
    /\ pc' = "idle"
    /\ entry' = "none"
    /\ args' = NoArgs
    /\ mainError' = "none"
    /\ exitCode' = -1
    /\ other' = other
    /\ UNCHANGED <<mergeVars, peer>>
    /\ ResetLocals
    /\ UNCHANGED persistent

Next ==
    \/ Main
    \/ CallUploadVideo
    \/ CallEnsureCreators
    \/ MaterializeVideo
    \/ CheckVideoSize
    \/ MaterializeThumbnail
    \/ NoCreators
    \/ EnsureCreator
    \/ CreateVideo
    \/ PutVideo
    \/ PutThumbnail
    \/ Finally
    \/ MainExit

\* One invocation of an entry point, with every input.
Spec == Init /\ [][Next]_vars

\* A batch: successive calls on one VideoUploader.
InitBatch == Init /\ platform = NoRecords

NextBatch ==
    \/ CallUploadLocal
    \/ CallEnsureCreators
    \/ MaterializeVideo
    \/ CheckVideoSize
    \/ MaterializeThumbnail
    \/ NoCreators
    \/ EnsureCreator
    \/ CreateVideo
    \/ PutVideo
    \/ PutThumbnail
    \/ Finally
    \/ Release

SpecBatch == InitBatch /\ [][NextBatch]_vars

(***************************************************************************)
(* The except clauses of main as a function of the exception: two          *)
(* exceptions that upload_video can raise, and the exit code of each.      *)
(***************************************************************************)
Raisable ==
    {RaiseExc("ValueError", 0, 0, at) : at \in {"size", "creators"}}
    \cup {RaiseExc("FileNotFoundError", 0, 0, at) : at \in {"video", "thumb"}}
    \cup {RaiseExc("ConnectionError", 0, 0, at) : at \in {"video", "thumb"}}
    \cup {HttpExc(status, 0, at) : status \in FailStatuses,
                                   at \in {"video", "thumb", "creators", "put_video",
                                           "put_thumb"}}
    \cup {HttpExc(500, 0, "create")}
    \cup {HttpExc(ConflictStatus, v, "create") : v \in {1, 9}}

InitExit ==
    /\ cache = EmptyCache
    /\ posted = {}
    /\ resolvedIds = NoIds
    /\ upserts = NoUpserts
    /\ platform = NoRecords
    /\ fs = {}
    /\ calls = 1
    /\ entry = "main"
    /\ pc = "except"
    /\ args = NoArgs
    /\ temp_video_path = 0
    /\ temp_thumbnail_path = 0
    /\ actual_thumbnail_path = "none"
    /\ videoSize = -1
    /\ thumbSize = -1
    /\ idx = 1
    /\ result_creators = << >>
    /\ payload = NoPayload
    /\ response = NoResponse
    /\ net = << >>
    /\ created = {}
    /\ exc \in Raisable
    /\ mainError = "none"
    /\ exitCode = -1
    /\ \E e \in Raisable : other = [exc |-> e, exitCode |-> -1]
    /\ inputs = NoInputs
    /\ merged = NoMerged
    /\ content_type = "none"
    /\ thumbnail_content_type = "none"
    /\ put_headers = NoHeaders
    /\ peer = NoPeer
    /\ local_files = {}

ExitCodes ==
    /\ pc = "except"
    /\ exitCode' = ExitCodeOf(exc)
    /\ other' = [other EXCEPT !.exitCode = ExitCodeOf(other.exc)]
    /\ pc' = "mapped"
    /\ UNCHANGED <<persistent, entry, args, temp_video_path, temp_thumbnail_path,
                   actual_thumbnail_path, videoSize, thumbSize, idx, result_creators,
                   payload, response, net, created, exc, mainError, peer, local_files, mergeVars, typeVars>>

SpecExit == InitExit /\ [][ExitCodes]_vars

(***************************************************************************)
(* main(), lines 629-641: the merge of the command line, the JSON file and *)
(* the environment.  A flag that was not given and a key the file or the   *)
(* environment does not hold are None.                                     *)
(***************************************************************************)
\* a or b, for Optional[str]: None and "" are falsy
OrStr(a, b) == IF a # Absent /\ a # "" THEN a ELSE b

\* a or b, for Optional[int]: None and 0 are falsy
OrCount(a, b) == IF a # NoCount /\ a # 0 THEN a ELSE b

CliStrings == {Absent, "from-cli"}
JsonStrings == {Absent, "from-json"}
EnvStrings == {Absent, "from-env"}
CliCounts == {NoCount, 0, 7}
JsonCounts == {NoCount, 0, 500}

InputSets ==
    [cli : [video : CliStrings, title : CliStrings, user_id : CliStrings,
            api_key : CliStrings, view_count : CliCounts],
     json : [video : JsonStrings, title : JsonStrings, user_id : JsonStrings,
             view_count : JsonCounts],
     env : [USER_ID : EnvStrings, API_KEY : EnvStrings]]

Merge(in) ==
    [video_path |-> OrStr(in.cli.video, in.json.video),
     title |-> OrStr(in.cli.title, in.json.title),
     user_id |-> OrStr(OrStr(in.cli.user_id, in.json.user_id), in.env.USER_ID),
     view_count |-> OrCount(in.cli.view_count, in.json.view_count),
     api_key |-> OrStr(in.cli.api_key, in.env.API_KEY)]

InitMerge ==
    /\ cache = EmptyCache
    /\ posted = {}
    /\ resolvedIds = NoIds
    /\ upserts = NoUpserts
    /\ platform = NoRecords
    /\ fs = {}
    /\ calls = 1
    /\ entry = "main"
    /\ pc = "merge"
    /\ args = NoArgs
    /\ temp_video_path = 0
    /\ temp_thumbnail_path = 0
    /\ actual_thumbnail_path = "none"
    /\ videoSize = -1
    /\ thumbSize = -1
    /\ idx = 1
    /\ result_creators = << >>
    /\ payload = NoPayload
    /\ response = NoResponse
    /\ net = << >>
    /\ created = {}
    /\ exc = NoExc
    /\ mainError = "none"
    /\ exitCode = -1
    /\ other = NoOther
    /\ inputs \in InputSets
    /\ merged = NoMerged
    /\ content_type = "none"
    /\ thumbnail_content_type = "none"
    /\ put_headers = NoHeaders
    /\ peer = NoPeer
    /\ local_files = {}

MergeArgs ==
    /\ pc = "merge"
    /\ merged' = Merge(inputs)
    /\ pc' = "merged"
    /\ UNCHANGED <<persistent, entry, args, temp_video_path, temp_thumbnail_path,
                   actual_thumbnail_path, videoSize, thumbSize, idx, result_creators,
                   payload, response, net, created, exc, mainError, exitCode, other,
                   inputs, typeVars, peer, local_files>>

SpecMerge == InitMerge /\ [][MergeArgs]_vars

(***************************************************************************)
(* One upload_video call without creators, over sources whose paths carry  *)
(* different suffixes.                                                     *)
(***************************************************************************)
VideoSuffixes == {<< >>, Mp4, <<"M", "O", "V">>, <<"t", "x", "t">>}
ThumbnailSuffixes == {<< >>, Jpg, <<"P", "n", "g">>}

CallUploadTyped ==
    /\ CanInvoke
    /\ \E v \in {"local", "url"}, t \in {"none", "local", "url"},
          vs \in VideoSuffixes, ts \in ThumbnailSuffixes :
        args' = [video_path |-> v, title |-> "given", user_id |-> "given",
                 thumbnail_path |-> t, creators |-> << >>, external_reference |-> "none",
                 video_suffix |-> vs, thumbnail_suffix |-> ts]
    /\ entry' = "upload_video"
    /\ pc' = "video"
    /\ mainError' = "none"
    /\ exitCode' = -1
    /\ calls' = calls + 1
    /\ other' = other
    /\ UNCHANGED <<mergeVars, peer>>
    /\ ResetLocals
    /\ UNCHANGED <<cache, posted, resolvedIds, upserts, platform, fs>>

NextTyped ==
    \/ CallUploadTyped
    \/ MaterializeVideo
    \/ CheckVideoSize
    \/ MaterializeThumbnail
    \/ NoCreators
    \/ CreateVideo
    \/ PutVideo
    \/ PutThumbnail
    \/ Finally

SpecTyped == InitBatch /\ [][NextTyped]_vars

(***************************************************************************)
(* _get_content_type as a function of the suffix of its path: every        *)
(* spelling, in upper and lower case, of the extensions of the table, and  *)
(* suffixes the table does not hold.                                       *)
(***************************************************************************)
ToUpper(c) ==
    IF \E i \in 1..Len(LowerCase) : LowerCase[i] = c
    THEN UpperCase[CHOOSE i \in 1..Len(LowerCase) : LowerCase[i] = c]
    ELSE c

RECURSIVE CaseVariants(_)
CaseVariants(w) ==
    IF w = << >> THEN {<< >>}
    ELSE {<<c>> \o r : c \in {Head(w), ToUpper(Head(w))}, r \in CaseVariants(Tail(w))}

OtherSuffixes ==
    {<< >>, <<"t", "x", "t">>, <<"T", "X", "T">>, <<"m", "p">>, <<"m", "p", "4", "x">>,
     <<"4", "p", "m">>, <<"J", "P">>, <<"w", "e", "b">>}

Suffixes == UNION {CaseVariants(w) : w \in DOMAIN content_types} \cup OtherSuffixes

InitContentType ==
    /\ cache = EmptyCache
    /\ posted = {}
    /\ resolvedIds = NoIds
    /\ upserts = NoUpserts
    /\ platform = NoRecords
    /\ fs = {}
    /\ calls = 1
    /\ entry = "get_content_type"
    /\ pc = "content_type"
    /\ \E suffix \in Suffixes : args = [NoArgs EXCEPT !.video_suffix = suffix]
    /\ temp_video_path = 0
    /\ temp_thumbnail_path = 0
    /\ actual_thumbnail_path = "none"
    /\ videoSize = -1
    /\ thumbSize = -1
    /\ idx = 1
    /\ result_creators = << >>
    /\ payload = NoPayload
    /\ response = NoResponse
    /\ net = << >>
    /\ created = {}
    /\ exc = NoExc
    /\ mainError = "none"
    /\ exitCode = -1
    /\ other = NoOther
    /\ inputs = NoInputs
    /\ merged = NoMerged
    /\ content_type = "none"
    /\ thumbnail_content_type = "none"
    /\ put_headers = NoHeaders
    /\ peer = NoPeer
    /\ local_files = {}

GetContentType ==
    /\ pc = "content_type"
    /\ content_type' = get_content_type(args.video_suffix)
    /\ pc' = "typed"
    /\ UNCHANGED <<persistent, entry, args, temp_video_path, temp_thumbnail_path,
                   actual_thumbnail_path, videoSize, thumbSize, idx, result_creators,
                   payload, response, net, created, exc, mainError, exitCode, other,
                   mergeVars, thumbnail_content_type, put_headers, peer, local_files>>

SpecContentType == InitContentType /\ [][GetContentType]_vars

(***************************************************************************)
(* Two VideoUploader instances, each running one upload_video of a URL     *)
(* video with creators to upsert, their steps interleaved.  The first      *)
(* instance is the one of the actions above; the second is held in peer    *)
(* and runs the same code: __init__, _download_file, ensure_creators with  *)
(* upsert_creator, the session and the transfer, the finally block.        *)
(***************************************************************************)
SharedLists == {<<NewAlice>>, <<NewBob, NewAlice>>}

CallUploadShared ==
    /\ CanInvoke
    /\ \E cs \in SharedLists :
        args' = [video_path |-> "url", title |-> "given", user_id |-> "given",
                 thumbnail_path |-> "none", creators |-> cs, external_reference |-> "none",
                 video_suffix |-> Mp4, thumbnail_suffix |-> Jpg]
    /\ entry' = "upload_video"
    /\ pc' = "video"
    /\ mainError' = "none"
    /\ exitCode' = -1
    /\ calls' = calls + 1
    /\ other' = other
    /\ UNCHANGED <<mergeVars, peer>>
    /\ ResetLocals
    /\ UNCHANGED <<cache, posted, resolvedIds, upserts, platform, fs>>

\* tempfile.NamedTemporaryFile in the second instance: a name no file of the
\* first instance has
PeerTempName == 2 * MaxCalls + 1

PeerCacheShared == cache @@ peer.cache

\* self._creator_cache of the second instance: its own dict (line 50)
PeerCache == peer.cache

PeerUnchanged ==
    UNCHANGED <<cache, posted, resolvedIds, upserts, platform, calls, entry, pc, args,
                temp_video_path, temp_thumbnail_path, actual_thumbnail_path, videoSize,
                thumbSize, idx, result_creators, payload, response, net, created, exc,
                mainError, exitCode, other, mergeVars, typeVars, local_files>>

\* VideoUploader(...) and the call of upload_video
PeerCall ==
    /\ peer.pc = "none"
    /\ \E cs \in SharedLists :
        peer' = [peer EXCEPT !.pc = "video", !.creators = cs]
    /\ fs' = fs
    /\ PeerUnchanged

\* lines 312-334: the video is fetched; its size passes the check
PeerFetch ==
    /\ peer.pc = "video"
    /\ \E o \in DownloadOutcomes({MinVideoSize}) :
        /\ fs' = IF o.temp THEN fs \cup {PeerTempName} ELSE fs
        /\ peer' = [peer EXCEPT
                       !.created = IF o.temp THEN {PeerTempName} ELSE @,
                       !.temp_video_path = IF o.done THEN PeerTempName ELSE @,
                       !.failed = ~o.done,
                       !.pc = IF o.done THEN "creators" ELSE "finally"]
    /\ PeerUnchanged

\* ensure_creators and upsert_creator, one entry per step
PeerEnsureCreator ==
    /\ peer.pc = "creators"
    /\ LET creator == peer.creators[peer.idx]
           username == creator.username
           next == IF peer.idx = Len(peer.creators) THEN "transfer" ELSE "creators"
       IN
       IF username \in DOMAIN PeerCache
       THEN peer' = [peer EXCEPT
                       !.result_creators = AppendResolved(@, creator, PeerCache[username]),
                       !.idx = @ + 1,
                       !.pc = next]
       ELSE \E status \in {200, 500} :
            IF Ok(status)
            THEN \E id \in CreatorIds :
                 peer' = [peer EXCEPT
                            !.posted = @ \cup {username},
                            !.cache = (username :> id) @@ @,
                            !.received = [@ EXCEPT ![username] = @ \cup {id}],
                            !.result_creators = AppendResolved(@, creator, id),
                            !.idx = @ + 1,
                            !.pc = next]
            ELSE peer' = [peer EXCEPT
                            !.posted = @ \cup {username},
                            !.failed = TRUE,
                            !.pc = "finally"]
    /\ fs' = fs
    /\ PeerUnchanged

\* lines 373-408: the session and the PUT of the video, which succeed or fail
PeerTransfer ==
    /\ peer.pc = "transfer"
    /\ \E ok \in BOOLEAN : peer' = [peer EXCEPT !.failed = ~ok, !.pc = "finally"]
    /\ fs' = fs
    /\ PeerUnchanged

\* lines 410-417: the finally block of the second instance's call
PeerFinally ==
    /\ peer.pc = "finally"
    /\ fs' = fs \ {f \in {peer.temp_video_path} : f # 0}
    /\ peer' = [peer EXCEPT !.pc = "returned"]
    /\ PeerUnchanged

NextTwo ==
    \/ CallUploadShared
    \/ MaterializeVideo
    \/ CheckVideoSize
    \/ MaterializeThumbnail
    \/ EnsureCreator
    \/ CreateVideo
    \/ PutVideo
    \/ PutThumbnail
    \/ Finally
    \/ PeerCall
    \/ PeerFetch
    \/ PeerEnsureCreator
    \/ PeerTransfer
    \/ PeerFinally

SpecTwo == InitBatch /\ [][NextTwo]_vars

(***************************************************************************)
(* What the claims speak of.                                               *)
(***************************************************************************)
\* The invocation has returned or raised.
Ended == pc \in {"returned", "exited"}

Requests(kinds) == {i \in 1..Len(net) : net[i].req \in kinds}

\* Requests to the platform and to the storage it hands out.
PlatformRequests == Requests({"POST_creators", "POST_upload", "PUT_video", "PUT_thumb"})

\* This step sent a creator upsert for username u.
PostedNow(u) ==
    /\ Len(net') = Len(net) + 1
    /\ net'[Len(net')].req = "POST_creators"
    /\ net'[Len(net')].about = u

\* A reference with neither an id nor a non-empty username.
HasNeither(creator) == creator.id = Absent /\ ~Truthy(creator.username)

\* The taxonomy of errors, read off the exception.
ErrorClass(e) ==
    IF e.type = "none" THEN "none"
    ELSE IF e.type = "ValueError" THEN "validation"
    ELSE IF e.type = "FileNotFoundError" THEN "not_found"
    ELSE IF e.at \in {"video", "thumb"} THEN "fetch"
    ELSE IF e.at \in {"put_video", "put_thumb"} THEN "transfer"
    ELSE IF e.at = "create" /\ e.status = ConflictStatus THEN "conflict"
    ELSE "upstream"

IsHttp409(e) == e.type = "HTTPError" /\ e.status = ConflictStatus

(***************************************************************************)
(* C1: once upload_video has returned or raised, no temporary file created *)
(* during the invocation still exists.                                     *)
(***************************************************************************)
C1_NoTempFileLeft == Ended => created \cap fs = {}

(***************************************************************************)
(* C2: within one VideoUploader, once a resolution of a username has       *)
(* succeeded, no further POST to the creator-upsert endpoint is sent for   *)
(* that username, and all successful resolutions of it give the same id.   *)
(***************************************************************************)
C2_CacheCorrect ==
    /\ [](\A u \in Usernames : Cardinality(resolvedIds[u]) <= 1)
    /\ [][\A u \in Usernames : resolvedIds[u] # {} => ~PostedNow(u)]_vars

\* A second call resolved alice, whom an earlier call had upserted, without a request.
C2_ResolvedTwice ==
    /\ pc = "returned"
    /\ calls = 2
    /\ exc = NoExc
    /\ "alice" \in posted
    /\ \E i \in 1..Len(args.creators) : args.creators[i].username = "alice"
    /\ Requests({"POST_creators"}) = {}
    /\ Len(result_creators) = Len(args.creators)

(***************************************************************************)
(* C3: ensure_creators on a list that holds an entry with neither id nor   *)
(* username fails with a validation error and sends no creator upsert for  *)
(* any entry of the list.                                                  *)
(***************************************************************************)
C3_InvalidEntryNoUpsert ==
    (/\ entry = "ensure_creators"
     /\ pc = "returned"
     /\ \E i \in 1..Len(args.creators) : HasNeither(args.creators[i]))
    => /\ exc.type = "ValueError"
       /\ Requests({"POST_creators"}) = {}

(***************************************************************************)
(* C4: a video below 1024 bytes makes upload_video fail with a validation  *)
(* error, and no request is ever sent to the platform: no creator upsert,  *)
(* no session-creation request, no storage PUT.                            *)
(***************************************************************************)
C4_UndersizedVideoNoPlatformRequest ==
    (videoSize # -1 /\ videoSize < MinVideoSize)
    => /\ PlatformRequests = {}
       /\ ~payload.sent
       /\ Ended => exc.type = "ValueError"

\* A fetched video of 1023 bytes, with creators to upsert and a thumbnail given.
C4_UndersizedRejected ==
    /\ pc = "returned"
    /\ videoSize = MinVideoSize - 1
    /\ temp_video_path # 0
    /\ args.thumbnail_path = "url"
    /\ Len(args.creators) > 0
    /\ args.creators[1] = NewAlice

(***************************************************************************)
(* C5: when creator resolution fails inside upload_video, no               *)
(* session-creation request is sent.                                       *)
(***************************************************************************)
C5_CreatorFailureNoSession ==
    (entry \in {"main", "upload_video"} /\ exc.at = "creators")
    => /\ ~payload.sent
       /\ Requests({"POST_upload"}) = {}

\* An upload ended by a failed upsert of its second creator.
C5_UpsertFailed ==
    /\ pc = "returned"
    /\ entry = "upload_video"
    /\ exc.at = "creators"
    /\ exc.type = "HTTPError"
    /\ Len(result_creators) = 1

(***************************************************************************)
(* C6: an upload whose externalReference an earlier upload of the batch    *)
(* registered ends in a conflict that carries the videoId on record, sends *)
(* no storage PUT and leaves no temporary file; and the conflict outcome   *)
(* (an HTTPError of status 409) is no other error.                         *)
(***************************************************************************)
C6_DuplicateIsDistinctConflict ==
    (/\ pc = "returned"
     /\ entry = "upload_video"
     /\ args.external_reference \in DOMAIN platform
     /\ platform[args.external_reference] # calls)
    => /\ payload.sent
          => /\ exc = RaiseExc("HTTPError", ConflictStatus,
                               platform[args.external_reference], "create")
             /\ Requests({"PUT_video", "PUT_thumb"}) = {}
             /\ created \cap fs = {}
       /\ IsHttp409(exc) => exc.at = "create"

(***************************************************************************)
(* C7: the driver exits with 0 exactly when the upload succeeded, with 2   *)
(* exactly when the session-creation endpoint reported a duplicate, and    *)
(* with 1 for every other failure.                                         *)
(***************************************************************************)
C7_ExitCodes ==
    pc = "exited"
    => /\ exitCode = 0 <=> (exc = NoExc /\ mainError = "none")
       /\ exitCode = ExitDuplicate <=> (IsHttp409(exc) /\ exc.at = "create")
       /\ exitCode \in {0, ExitFailure, ExitDuplicate}

C9_ValidationNoSideEffect ==
    (/\ Ended
     /\ entry \in {"main", "upload_video"}
     /\ exc.type = "ValueError" \/ mainError # "none")
    => /\ net = << >>
       /\ created = {}

(***************************************************************************)
(* C10: the creators of every session-creation request are as many as the  *)
(* creators given: never a part of the list.                               *)
(***************************************************************************)
C10_NoPartialCreators ==
    payload.sent => Len(payload.creators) = Len(args.creators)

\* A session was requested for two references to the same new creator.
C10_TwoResolved ==
    /\ payload.sent
    /\ args.creators = <<NewAlice, BothKeys>>
    /\ Len(payload.creators) = 2

(***************************************************************************)
(* C11, as claimed: over the lifetime of one VideoUploader, at most one    *)
(* POST to the creator-upsert endpoint is sent for any username, failed    *)
(* upserts included.                                                       *)
(***************************************************************************)
C11_AtMostOnePost == \A u \in Usernames : upserts[u].sent <= 1

(***************************************************************************)
(* C11, amended: over the lifetime of one VideoUploader at most one POST   *)
(* for a username is answered successfully, and the cache holds the        *)
(* username exactly from then on; a failed upsert caches nothing, so the   *)
(* username is POSTed again when it is submitted later.                    *)
(***************************************************************************)
C11_AtMostOneSuccessfulPost ==
    \A u \in Usernames :
        /\ upserts[u].ok <= 1
        /\ u \in DOMAIN cache <=> upserts[u].ok = 1
        /\ upserts[u].sent > 1 => upserts[u].sent > upserts[u].ok

\* alice's upsert failed in one call and was sent again, with success, in the next.
C11_PostedAgainAfterFailure ==
    /\ upserts["alice"] = [sent |-> 2, ok |-> 1]
    /\ "alice" \in DOMAIN cache
    /\ pc = "returned"
    /\ exc = NoExc

\* What the i-th reference of the running call resolves to: its own id when it
\* names an existing creator, else the id the instance holds for its username.
ResolutionOf(creator) ==
    [id |-> IF IsSimpleFormat(creator) THEN creator.id ELSE cache[creator.username],
     role |-> RoleOf(creator)]

(***************************************************************************)
(* C12: when ensure_creators succeeds its output is as long as its input   *)
(* and the i-th output is the resolution (id and role) of the i-th input   *)
(* reference, for existing ids, cache hits and fresh upserts alike.        *)
(***************************************************************************)
C12_OrderPreserved ==
    /\ \A i \in 1..Len(result_creators) :
          /\ i <= Len(args.creators)
          /\ result_creators[i] = ResolutionOf(args.creators[i])
    /\ (pc = "returned" /\ entry = "ensure_creators" /\ exc = NoExc)
       => Len(result_creators) = Len(args.creators)

\* A second call resolved alice from the cache and bob by a fresh upsert, to
\* different ids.
C12_HitThenFresh ==
    /\ pc = "returned"
    /\ entry = "ensure_creators"
    /\ exc = NoExc
    /\ calls = 2
    /\ args.creators = <<NewAlice, NewBob>>
    /\ Len(net) = 1
    /\ net[1].about = "bob"
    /\ result_creators[1].id # result_creators[2].id

\* An ExistingCreator reference: an id and no username key.
IsExistingRef(creator) == creator.id # Absent /\ creator.username = Absent

(***************************************************************************)
(* C13: for a reference with an id and no username, ensure_creators        *)
(* outputs exactly that id with the reference's role, sends no request for *)
(* it and leaves the creator cache unchanged.                              *)
(***************************************************************************)
C13_ExistingIdPassedThrough ==
    [][(/\ pc = "creators"
        /\ idx <= Len(args.creators)
        /\ IsExistingRef(args.creators[idx]))
       => /\ result_creators' = Append(result_creators,
                                       [id |-> args.creators[idx].id,
                                        role |-> RoleOf(args.creators[idx])])
          /\ net' = net
          /\ cache' = cache
          /\ upserts' = upserts
          /\ exc' = exc]_vars

\* After alice's upsert, the existing creator c2 was passed through: one
\* request in all, the cache holds alice alone.
C13_PassedThroughAfterUpsert ==
    /\ pc = "returned"
    /\ entry = "ensure_creators"
    /\ args.creators = <<NewAlice, ExistingC>>
    /\ Len(result_creators) = 2
    /\ result_creators[2] = [id |-> "c2", role |-> "producer"]
    /\ Len(net) = 1
    /\ DOMAIN cache = {"alice"}

\* The requests of the invocation that were answered with a failure.
FailedRequests(kinds) == {i \in Requests(kinds) : ~Ok(net[i].status)}

(***************************************************************************)
(* C14: when the PUT of the video bytes fails, the invocation ends in      *)
(* failure and no PUT of the thumbnail is attempted, even when a thumbnail *)
(* asset and a thumbnail upload slot both exist.                           *)
(***************************************************************************)
C14_VideoPutFailureStops ==
    FailedRequests({"PUT_video"}) # {}
    => /\ Requests({"PUT_thumb"}) = {}
       /\ exc.type = "HTTPError"
       /\ exc.at = "put_video"
       /\ pc \in {"finally", "returned", "exited"}
       /\ ReturnValue = NoResponse

\* The video PUT failed while a thumbnail and a slot for it were at hand.
C14_FailedWithThumbnailAtHand ==
    /\ pc = "returned"
    /\ FailedRequests({"PUT_video"}) # {}
    /\ actual_thumbnail_path # "none"
    /\ response.thumbnailUploadUrl

(***************************************************************************)
(* C15: when the video PUT succeeded and the thumbnail PUT then fails,     *)
(* upload_video raises and returns no result, while the session and the    *)
(* transferred video stay: the failed PUT is the last request the client   *)
(* sends, no rollback, delete or compensating request follows it.          *)
(***************************************************************************)
C15_ThumbnailFailureKeepsVideo ==
    FailedRequests({"PUT_thumb"}) # {}
    => /\ exc.type = "HTTPError"
       /\ exc.at = "put_thumb"
       /\ ReturnValue = NoResponse
       /\ pc \in {"finally", "returned", "exited"}
       /\ net[Len(net)].req = "PUT_thumb"
       /\ \E i \in Requests({"PUT_video"}) : Ok(net[i].status)
       /\ \E i \in Requests({"POST_upload"}) : Ok(net[i].status)
       /\ response.videoId = calls
       /\ Truthy(args.external_reference)
          => /\ args.external_reference \in DOMAIN platform
             /\ platform[args.external_reference] = response.videoId

\* The call is over after a failed thumbnail PUT; the platform keeps the
\* record of ref1.
C15_PartialSuccess ==
    /\ pc = "returned"
    /\ FailedRequests({"PUT_thumb"}) # {}
    /\ args.external_reference = "ref1"
    /\ platform["ref1"] = calls
    /\ temp_video_path # 0

\* upload_video (called directly or by main) has ended without an exception.
UploadSucceeded ==
    /\ Ended
    /\ entry \in {"main", "upload_video"}
    /\ mainError = "none"
    /\ exc = NoExc

(***************************************************************************)
(* C16: one invocation sends at most one session-creation request, one PUT *)
(* of the video and one PUT of the thumbnail, and a failed request is the  *)
(* last one it sends (nothing is retried); a successful invocation with a  *)
(* local video, no creators and no thumbnail is exactly one                *)
(* session-creation request and one PUT, returns the session's videoId,    *)
(* bucket and key, and creates no temporary file.                          *)
(***************************************************************************)
C16_SingleShot ==
    /\ Cardinality(Requests({"POST_upload"})) <= 1
    /\ Cardinality(Requests({"PUT_video"})) <= 1
    /\ Cardinality(Requests({"PUT_thumb"})) <= 1
    /\ \A i \in 1..Len(net) : ~Ok(net[i].status) => i = Len(net)
    /\ (/\ UploadSucceeded
        /\ args.video_path = "local"
        /\ args.thumbnail_path = "none"
        /\ args.creators = << >>)
       => /\ net = <<Sent("POST_upload", "-", 200), Sent("PUT_video", "-", 200)>>
          /\ ReturnValue = response
          /\ ReturnValue.videoId = calls
          /\ ReturnValue.bucket = "videos"
          /\ ReturnValue.key = calls
          /\ created = {}

\* The minimal upload succeeded although the session offered a thumbnail slot.
C16_MinimalUpload ==
    /\ UploadSucceeded
    /\ pc = "returned"
    /\ args.video_path = "local"
    /\ args.thumbnail_path = "none"
    /\ args.creators = << >>
    /\ response.thumbnailUploadUrl
    /\ Len(net) = 2

\* The requests of the invocation, by kind, in the order they were sent.
KindsSent == [i \in 1..Len(net) |-> net[i].req]

ByPrecedence(flag, file, environment) ==
    IF flag # Absent THEN flag ELSE IF file # Absent THEN file ELSE environment

CountByPrecedence(flag, file) == IF flag # NoCount THEN flag ELSE file

(***************************************************************************)
(* C18: for every field the driver merges and every value given on the     *)
(* command line, the view count 0 included, the value passed on is the     *)
(* command-line value whenever the flag was given, else the JSON file's    *)
(* value whenever present, else the environment default where one exists.  *)
(***************************************************************************)
C18_FlagsTakePrecedence ==
    pc = "merged"
    => /\ merged.video_path = ByPrecedence(inputs.cli.video, inputs.json.video, Absent)
       /\ merged.title = ByPrecedence(inputs.cli.title, inputs.json.title, Absent)
       /\ merged.user_id = ByPrecedence(inputs.cli.user_id, inputs.json.user_id,
                                        inputs.env.USER_ID)
       /\ merged.api_key = ByPrecedence(inputs.cli.api_key, Absent, inputs.env.API_KEY)
       /\ merged.view_count = CountByPrecedence(inputs.cli.view_count,
                                                inputs.json.view_count)

(***************************************************************************)
(* C19: when the local video path or the local thumbnail path does not     *)
(* exist, upload_video fails with a not-found error, sends no request to   *)
(* the platform, and removes the temporary video file it had fetched.      *)
(***************************************************************************)
C19_MissingFileNotFound ==
    exc.type = "FileNotFoundError"
    => /\ exc.at \in {"video", "thumb"}
       /\ pc \in {"finally", "returned", "exited"}
       /\ PlatformRequests = {}
       /\ ~payload.sent
       /\ ReturnValue = NoResponse
       /\ exc.at = "video" => net = << >> /\ created = {}
       /\ Ended => created \cap fs = {}

\* The thumbnail was missing after the video had been fetched: the fetched
\* file is gone again.
C19_ThumbnailMissingAfterFetch ==
    /\ pc = "returned"
    /\ exc = RaiseExc("FileNotFoundError", 0, 0, "thumb")
    /\ temp_video_path # 0
    /\ created = {temp_video_path}
    /\ fs = {}
    /\ Len(args.creators) > 0

(***************************************************************************)
(* C20: a thumbnail below 100 bytes never makes the upload fail: the       *)
(* invocation goes on to creator resolution, session request and transfers *)
(* as it does for a thumbnail of sufficient size.                          *)
(***************************************************************************)
C20_SmallThumbnailOnlyWarns ==
    (thumbSize # -1 /\ thumbSize < MinThumbSize)
    => /\ pc \notin {"video", "size", "thumb"}
       /\ exc.at \notin {"size", "thumb"}
       /\ exc.type \in {"none", "ValueError", "HTTPError"}
       /\ exc.type = "ValueError" => exc.at = "creators"
       /\ (pc \in {"finally", "returned", "exited"} /\ exc = NoExc)
          => /\ \E i \in Requests({"PUT_video"}) : Ok(net[i].status)
             /\ response.thumbnailUploadUrl
                => \E i \in Requests({"PUT_thumb"}) : Ok(net[i].status)

\* A fetched thumbnail of 99 bytes was transferred and the upload succeeded.
C20_SmallThumbnailUploaded ==
    /\ UploadSucceeded
    /\ thumbSize = MinThumbSize - 1
    /\ temp_thumbnail_path # 0
    /\ Requests({"PUT_thumb"}) # {}
    /\ Len(args.creators) > 0

\* The step that decides on the thumbnail PUT is behind the invocation.
PastTransfers == pc \in {"finally", "returned", "exited"}

VideoPutSucceeded == \E i \in Requests({"PUT_video"}) : Ok(net[i].status)

(***************************************************************************)
(* C21: a PUT to the thumbnail upload URL is sent if and only if the video *)
(* PUT succeeded, a thumbnail source was given and the session response    *)
(* holds a thumbnailUploadUrl; when a thumbnail was given and the session  *)
(* has no thumbnailUploadUrl, the invocation succeeds without transferring *)
(* the thumbnail.                                                          *)
(***************************************************************************)
C21_ThumbnailPutIff ==
    /\ Requests({"PUT_thumb"}) # {}
       => /\ VideoPutSucceeded
          /\ Truthy(args.thumbnail_path)
          /\ response.thumbnailUploadUrl
    /\ (/\ PastTransfers
        /\ VideoPutSucceeded
        /\ Truthy(args.thumbnail_path)
        /\ response.thumbnailUploadUrl)
       => Requests({"PUT_thumb"}) # {}
    /\ (/\ PastTransfers
        /\ VideoPutSucceeded
        /\ Truthy(args.thumbnail_path)
        /\ ~response.thumbnailUploadUrl)
       => /\ exc = NoExc
          /\ Requests({"PUT_thumb"}) = {}
          /\ Ended => ReturnValue = response

\* A thumbnail was fetched, the session offered no slot for it, and the
\* upload succeeded.
C21_ThumbnailWithoutSlot ==
    /\ UploadSucceeded
    /\ pc = "returned"
    /\ temp_thumbnail_path # 0
    /\ ~response.thumbnailUploadUrl
    /\ KindsSent = <<"GET_thumb", "POST_upload", "PUT_video">>

(***************************************************************************)
(* C22: every creator entry of every session-creation request upload_video *)
(* sends has a role in {performer, producer}: a reference with a missing   *)
(* or an invalid role is rejected with a validation error before any       *)
(* network call.                                                           *)
(***************************************************************************)
C22_RolesValidated ==
    /\ payload.sent
       => \A i \in 1..Len(payload.creators) : payload.creators[i].role \in Roles
    /\ (/\ entry \in {"main", "upload_video"}
        /\ \E i \in 1..Len(args.creators) : args.creators[i].role \notin Roles)
       => /\ ~payload.sent
          /\ PlatformRequests = {}

\* The MIME type the table gives the extension the suffix spells, in any
\* letter case; the generic binary type when it spells none.
TableEntry(suffix) ==
    IF \E w \in DOMAIN content_types : suffix \in CaseVariants(w)
    THEN content_types[CHOOSE w \in DOMAIN content_types : suffix \in CaseVariants(w)]
    ELSE "application/octet-stream"

(***************************************************************************)
(* C23: _get_content_type returns a MIME type for every path and never     *)
(* fails: each extension of its table, in any letter case, maps to its     *)
(* table entry, every other extension and no extension map to              *)
(* application/octet-stream.                                               *)
(***************************************************************************)
C23_ContentTypeTotal ==
    pc = "typed"
    => /\ content_type = TableEntry(args.video_suffix)
       /\ content_type \in {content_types[w] : w \in DOMAIN content_types}
                           \cup {"application/octet-stream"}
       /\ args.video_suffix = <<"J", "p", "E", "g">> => content_type = "image/jpeg"
       /\ args.video_suffix \in OtherSuffixes => content_type = "application/octet-stream"

\* .WeBm was resolved to video/webm.
C23_MixedCaseResolved ==
    /\ pc = "typed"
    /\ args.video_suffix = <<"W", "e", "B", "m">>
    /\ content_type = "video/webm"

\* The type the Content-Type Resolver gives for the asset of a source.
ResolvedType(path, suffix, default) == TableEntry(AssetSuffix(path, suffix, default))

(***************************************************************************)
(* C24: the Content-Type header of the PUT to uploadUrl is the type the    *)
(* Content-Type Resolver gives for the video asset and the contentType     *)
(* declared in the session-creation request; likewise the header of the    *)
(* thumbnail PUT is the resolved thumbnail type and the declared           *)
(* thumbnailContentType.                                                   *)
(***************************************************************************)
C24_HeadersAsDeclared ==
    /\ Requests({"PUT_video"}) # {}
       => /\ put_headers.video = ResolvedType(args.video_path, args.video_suffix, Mp4)
          /\ put_headers.video = payload.contentType
    /\ Requests({"PUT_thumb"}) # {}
       => /\ put_headers.thumb =
                ResolvedType(args.thumbnail_path, args.thumbnail_suffix, Jpg)
          /\ put_headers.thumb = payload.thumbnailContentType
    /\ Requests({"PUT_video"}) = {} => put_headers.video = "none"
    /\ Requests({"PUT_thumb"}) = {} => put_headers.thumb = "none"

\* A local .MOV and a fetched .Png were declared and transferred with their
\* types.
C24_BothTyped ==
    /\ pc = "returned"
    /\ exc = NoExc
    /\ args.video_path = "local"
    /\ args.thumbnail_path = "url"
    /\ put_headers = [video |-> "video/quicktime", thumb |-> "image/png"]
    /\ payload.contentType = "video/quicktime"
    /\ payload.thumbnailContentType = "image/png"

(***************************************************************************)
(* C25: two VideoUploader instances running interleaved uploads share no   *)
(* creator-cache state: each instance resolves a username only by an       *)
(* upsert of its own and to an id it received itself, whatever the other   *)
(* has recorded; and each removes only the temporary files it created:     *)
(* the fetched file of a call that is still running exists.                *)
(***************************************************************************)
C25_InstancesIsolated ==
    /\ \A u \in DOMAIN cache : u \in posted /\ cache[u] \in resolvedIds[u]
    /\ \A i \in 1..Len(result_creators) :
          LET u == args.creators[i].username IN
          u \in Usernames => upserts[u].ok = 1 /\ result_creators[i].id = cache[u]
    /\ \A u \in DOMAIN peer.cache : u \in peer.posted /\ peer.received[u] = {peer.cache[u]}
    /\ \A i \in 1..Len(peer.result_creators) :
          LET u == peer.creators[i].username IN
          /\ u \in DOMAIN peer.cache
          /\ peer.result_creators[i].id = peer.cache[u]
    /\ (temp_video_path # 0 /\ pc \notin {"returned", "idle"}) => temp_video_path \in fs
    /\ (peer.temp_video_path # 0 /\ peer.pc # "returned") => peer.temp_video_path \in fs
    /\ (pc = "returned" /\ peer.pc = "returned") => fs \subseteq created \cup peer.created

\* Both instances upserted alice and hold different ids for her; the first
\* has finished and removed its file while the second still holds its own.
C25_SameUsernameTwoIds ==
    /\ "alice" \in DOMAIN cache
    /\ "alice" \in DOMAIN peer.cache
    /\ cache["alice"] # peer.cache["alice"]
    /\ pc = "returned"
    /\ temp_video_path # 0
    /\ peer.pc = "transfer"
    /\ fs = {peer.temp_video_path}

\* The place of a request in the order of the steps of upload_video.
StepRank(req) ==
    CASE req = "GET_video" -> 1
      [] req = "GET_thumb" -> 2
      [] req = "POST_creators" -> 3
      [] req = "POST_upload" -> 4
      [] req = "PUT_video" -> 5
      [] req = "PUT_thumb" -> 6

(***************************************************************************)
(* C26: in one upload_video invocation the steps occur in the order video  *)
(* materialization and size check, thumbnail materialization, creator      *)
(* upserts, session-creation request, PUT of the video, PUT of the         *)
(* thumbnail, cleanup; no storage PUT precedes a successful                *)
(* session-creation response, no session-creation request is sent before   *)
(* every creator is resolved, and nothing is removed before the cleanup.   *)
(***************************************************************************)
C26_StepsInOrder ==
    entry \in {"main", "upload_video"}
    => /\ \A i, j \in 1..Len(net) :
             i < j => /\ StepRank(net[i].req) <= StepRank(net[j].req)
                      /\ StepRank(net[i].req) = StepRank(net[j].req)
                         => net[i].req = "POST_creators"
       /\ Requests({"GET_thumb", "POST_creators", "POST_upload", "PUT_video", "PUT_thumb"}) # {}
          => videoSize >= MinVideoSize
       /\ Requests({"PUT_video", "PUT_thumb"}) # {}
          => \E i \in Requests({"POST_upload"}) :
                /\ Ok(net[i].status)
                /\ \A j \in Requests({"PUT_video", "PUT_thumb"}) : i < j
       /\ Requests({"PUT_thumb"}) # {}
          => \E i \in Requests({"PUT_video"}) : Ok(net[i].status)
       /\ Requests({"POST_upload"}) # {}
          => /\ Len(result_creators) = Len(args.creators)
             /\ idx = Len(args.creators) + 1
             /\ \A i \in Requests({"POST_creators"}) : Ok(net[i].status)
       /\ (pc \notin {"returned", "exited"} /\ temp_video_path # 0)
          => temp_video_path \in fs
       /\ (pc \notin {"returned", "exited"} /\ temp_thumbnail_path # 0)
          => temp_thumbnail_path \in fs

\* A run through every step: both sources fetched, two creators upserted,
\* the session, both PUTs, both files removed.
C26_EveryStep ==
    /\ pc = "returned"
    /\ entry = "upload_video"
    /\ KindsSent = <<"GET_video", "GET_thumb", "POST_creators", "POST_creators",
                     "POST_upload", "PUT_video", "PUT_thumb">>
    /\ Cardinality(created) = 2
    /\ fs = {}

\* A reference that carries both an id and a username.
HasBoth(creator) == creator.id # Absent /\ Truthy(creator.username)

(***************************************************************************)
(* C27: a creator reference that carries both an id and a username is      *)
(* handled as a NewCreator: it is resolved through the cache or the upsert *)
(* endpoint by its username, and the id in the output is the one cached or *)
(* returned by the platform, not the id the reference supplied.            *)
(***************************************************************************)
C27_BothKeysResolvedByUsername ==
    \A i \in 1..Len(result_creators) :
        HasBoth(args.creators[i])
        => LET u == args.creators[i].username IN
           /\ u \in DOMAIN cache
           /\ u \in posted
           /\ upserts[u].ok = 1
           /\ result_creators[i].id = cache[u]
           /\ result_creators[i].id \in CreatorIds
           /\ result_creators[i].id # args.creators[i].id
           /\ result_creators[i].role = RoleOf(args.creators[i])

\* {id: c9, username: alice} was resolved once by an upsert and, in the next
\* call, from the cache.
C27_BothKeysFromCache ==
    /\ pc = "returned"
    /\ calls = 2
    /\ exc = NoExc
    /\ args.creators = <<BothKeys>>
    /\ net = << >>
    /\ upserts["alice"] = [sent |-> 1, ok |-> 1]
    /\ result_creators = <<[id |-> cache["alice"], role |-> "producer"]>>

\* The local sources the invocation was given and found on the filesystem.
LocalSourcesFound ==
    {k \in {"video", "thumb"} :
        \/ k = "video" /\ args.video_path = "local" /\ videoSize # -1
        \/ k = "thumb" /\ args.thumbnail_path = "local" /\ thumbSize # -1}

(***************************************************************************)
(* C28: the cleanup of upload_video removes only files the remote fetcher  *)
(* created during the invocation: a video or thumbnail given as a local    *)
(* path still exists after the call has returned or raised, on every exit  *)
(* path.                                                                   *)
(***************************************************************************)
C28_LocalSourcesKept ==
    /\ [](local_files = LocalSourcesFound)
    /\ [][/\ fs \ fs' \subseteq created
          /\ local_files \subseteq local_files' \/ pc' = "video" \/ pc' = "idle"
          /\ pc = "finally" => local_files' = local_files]_vars

\* A call with a local video and a local thumbnail failed at the thumbnail
\* PUT; both sources are still there.
C28_SourcesThereAfterFailure ==
    /\ pc = "returned"
    /\ exc.at = "put_thumb"
    /\ local_files = {"video", "thumb"}
    /\ created = {}

\* The request this step sent, when it sent one.
SentNow == net'[Len(net')]

(***************************************************************************)
(* C29: the creator cache of a VideoUploader only grows, and only on       *)
(* success: an entry username -> id is added exactly when an upsert        *)
(* request for that username was answered 2xx with that id, a failed       *)
(* upsert leaves the cache unchanged, and an existing entry is never       *)
(* overwritten or removed.                                                 *)
(***************************************************************************)
C29_CacheGrowsOnSuccess ==
    [][/\ \A u \in DOMAIN cache : u \in DOMAIN cache' /\ cache'[u] = cache[u]
       /\ \A u \in Usernames :
             (u \in DOMAIN cache' /\ u \notin DOMAIN cache)
             <=> (PostedNow(u) /\ Ok(SentNow.status))
       /\ \A u \in Usernames :
             (PostedNow(u) /\ Ok(SentNow.status))
             => /\ cache'[u] = result_creators'[Len(result_creators')].id
                /\ resolvedIds'[u] = {cache'[u]}
       /\ \A u \in Usernames :
             (PostedNow(u) /\ ~Ok(SentNow.status)) => cache' = cache]_vars

\* alice's upsert failed in one call, leaving the cache empty, and succeeded
\* in the next, after bob's.
C29_AddedAfterFailure ==
    /\ calls = 2
    /\ pc = "returned"
    /\ upserts["alice"] = [sent |-> 2, ok |-> 1]
    /\ DOMAIN cache = {"alice", "bob"}
    /\ args.creators = <<NewBob, NewAlice>>

(***************************************************************************)
(* C30: when the fetch of a video or thumbnail URL is answered with a      *)
(* non-2xx status, _download_file fails before it creates a temporary      *)
(* file, and upload_video ends in failure having sent no request to the    *)
(* platform.                                                               *)
(***************************************************************************)
C30_FetchRejected ==
    /\ FailedRequests({"GET_video"}) # {}
       => /\ created = {}
          /\ fs = {}
          /\ temp_video_path = 0
          /\ exc = HttpExc(net[1].status, 0, "video")
    /\ FailedRequests({"GET_thumb"}) # {}
       => /\ TempName("thumb") \notin created
          /\ TempName("thumb") \notin fs
          /\ temp_thumbnail_path = 0
          /\ exc = HttpExc(net[Len(net)].status, 0, "thumb")
    /\ FailedRequests({"GET_video", "GET_thumb"}) # {}
       => /\ exc.type = "HTTPError"
          /\ pc \in {"finally", "returned", "exited"}
          /\ PlatformRequests = {}
          /\ ~payload.sent
          /\ ReturnValue = NoResponse
          /\ Ended => fs = {}

\* The thumbnail's host answered 500 after the video had been fetched: no
\* file was made for the thumbnail and the video's is removed.
C30_ThumbnailFetchRejected ==
    /\ pc = "returned"
    /\ FailedRequests({"GET_thumb"}) # {}
    /\ exc.status = 500
    /\ temp_video_path # 0
    /\ created = {temp_video_path}
    /\ fs = {}
    /\ Len(args.creators) > 0

=============================================================================
